---- MODULE Spec2Model ----
(***************************************************************************)
(* Model of the Messente API client (lib/client.js): the shared endpoint   *)
(* list, the request dispatcher _sendRequest with its response, data, end  *)
(* and error handlers, and the fan-out/aggregate operations sendMessage    *)
(* and getReport built on when.defer / when.all.                           *)
(*                                                                         *)
(* JavaScript runs each handler to completion, so every action below is    *)
(* one whole handler.  The HTTP transport and the gateway are the          *)
(* environment: they choose which event a request receives next.           *)
(***************************************************************************)
EXTENDS Integers, Sequences, FiniteSets, TLC

\* ---------------------------------------------------------------- bounds
MaxCalls == 1          \* public calls made during the life of the process
MaxRecipients == 2     \* longest recipient / identifier list of one call
MaxCallbacks == 2      \* callback invocations counted per dispatch
MaxRequests == 2       \* _sendRequest invocations during the life of the process
MaxClients == 1        \* createClient calls made during the life of the process
MaxChunks == 2         \* 'data' chunks buffered for one response

\* -------------------------------------------------------- JavaScript values
NULL == "null"
UNDEFINED == "undefined"

\* JavaScript truthiness of the values that occur here (strings, null, undefined)
Truthy(v) == v \notin {NULL, UNDEFINED, ""}

\* ------------------------------------------------------- program constants
_ERRORS ==
  [c \in {"101", "102", "103", "104", "105", "106", "107", "111", "208", "209"} |->
     CASE c = "101" -> "Access is restricted, wrong credentials."
       [] c = "102" -> "Parameters are wrong or missing."
       [] c = "103" -> "Invalid IP address."
       [] c = "104" -> "Country was not found."
       [] c = "105" -> "No such country or area code."
       [] c = "106" -> "Destination country is not supported."
       [] c = "107" -> "Not enough credit on account."
       [] c = "111" -> "Sender parameter from is invalid."
       [] c = "208" -> "Account credit balance undetermined, try again."
       [] c = "209" -> "Server failure, try again."]

\* Client._ENDPOINTS as the module is loaded
_ENDPOINTS == <<"api2.messente.com", "api3.messente.com">>

\* 1024 * 1024, the response size guard of onData
LIMIT == 1048576

\* Mutant of Client: secure is taken from opts as it is, without a default
Client_noDefault(opts) ==
  [_username |-> opts.username,
   _password |-> opts.password,
   _secure |-> opts.secure]

\* new Client(opts): opts.hasOwnProperty('secure') ? opts.secure : true
Client(opts) ==
  [_username |-> opts.username,
   _password |-> opts.password,
   _secure |-> IF opts.hasSecure THEN opts.secure ELSE TRUE]

\* ------------------------------------------------------------- input sets
Phones == <<"3725000001", "3725000002", "3725000003">>
Ids == <<"id1", "id2", "id3">>
Texts == {"Hello!", ""}
ChunkLens == {1, LIMIT}

\* The lists a call is made with: the first n elements of a list of distinct
\* values, for every n up to MaxRecipients (the code never looks into a value)
Prefixes(list) ==
  {SubSeq(list, 1, n) : n \in 0..(IF MaxRecipients < Len(list) THEN MaxRecipients ELSE Len(list))}

\* opts.to is absent, one string, or an array of strings
ToInputs ==
  {[type |-> "undefined", v |-> <<>>]}
  \cup {[type |-> "string", v |-> <<Phones[1]>>]}
  \cup {[type |-> "array", v |-> s] : s \in Prefixes(Phones)}

\* opts.timeToSend: absent, the number 0, a string, a Date (v is its
\* getTime() in milliseconds), a Date holding an invalid time
TimesToSend ==
  {[type |-> "undefined", v |-> UNDEFINED],
   [type |-> "number", v |-> "0"],
   [type |-> "string", v |-> "tomorrow"],
   [type |-> "Date", v |-> "1700000000000"],
   [type |-> "Date", v |-> "NaN"]}

\* The optional fields sendMessage is called with: a charset or none, with or
\* without the property chartset the code tests, and a timeToSend
SendOptions ==
  {[charset |-> UNDEFINED, chartset |-> UNDEFINED, timeToSend |-> t] : t \in TimesToSend}
  \cup {[charset |-> "ISO-8859-1", chartset |-> cs,
          timeToSend |-> [type |-> "undefined", v |-> UNDEFINED]] :
            cs \in {UNDEFINED, "ISO-8859-1"}}

\* The opts object of a sendMessage call
MessageOpts(text, to, o) ==
  [text |-> text, to |-> to, charset |-> o.charset, chartset |-> o.chartset,
   timeToSend |-> o.timeToSend]

\* The options createClient is called with: username and password present,
\* empty or missing, secure omitted, true or false
ClientOpts ==
  {[username |-> u, password |-> p, hasSecure |-> hs.own, secure |-> hs.v] :
     u \in {"user", "", UNDEFINED}, p \in {"secret", "", UNDEFINED},
     hs \in {[own |-> FALSE, v |-> FALSE], [own |-> TRUE, v |-> TRUE],
             [own |-> TRUE, v |-> FALSE]}}

ContentTypes == {"application/json", "text/html", "text/csv", "text/plain"}

\* String.prototype.match(pattern) on a content-type header
Match(ctype, pattern) ==
  CASE pattern = "json" -> ctype = "application/json"
    [] pattern = "text/html" -> ctype = "text/html"
    [] pattern = "text/csv" -> ctype = "text/csv"
    [] OTHER -> FALSE

\* ------------------------------------------------------------------ state
VARIABLES
  clients,     \* the createClient calls made so far, in order
  endpoints,   \* the array Client._ENDPOINTS, shared by every call
  calls,       \* the public calls made so far, in order
  disp         \* the _sendRequest invocations made so far, in order

vars == <<clients, endpoints, calls, disp>>

\* ------------------------------------------------------- values and helpers
\* JavaScript null as an error argument, and new Error(message)
NoError == [type |-> "null", message |-> ""]
Error(message) == [type |-> "Error", message |-> message]

\* Decoded response data handed to a callback
NoData == [t |-> "undefined", v |-> <<>>]
Object(o) == [t |-> "object", v |-> o]
Array(rows) == [t |-> "array", v |-> rows]

\* data.status, data.value: property access on whatever was decoded
Prop(data, k) ==
  LET own == {i \in DOMAIN data.v : data.v[i][1] = k}
  IN  IF data.t = "object" /\ own # {}
      THEN data.v[CHOOSE i \in own : \A j \in own : j <= i][2]
      ELSE UNDEFINED

\* What Client._ERRORS inherits from Object.prototype: the property names the
\* gateway value is looked up under besides the codes, and the text new Error
\* makes of the function found there
ObjectPrototype ==
  [p \in {"constructor", "toString"} |->
     IF p = "constructor" THEN "function Object() { [native code] }"
     ELSE "function toString() { [native code] }"]

\* Client._ERRORS[value] || 'Unknown error', as the message of new Error(error):
\* a property lookup on an object literal, own properties first
ErrorMessage(value) ==
  IF value \in DOMAIN _ERRORS THEN _ERRORS[value]
  ELSE IF value \in DOMAIN ObjectPrototype THEN ObjectPrototype[value]
  ELSE "Unknown error"

\* Array.prototype.shift: the removed first element, undefined on an empty array
shift(arr) ==
  IF Len(arr) = 0 THEN [value |-> UNDEFINED, rest |-> arr]
  ELSE [value |-> Head(arr), rest |-> Tail(arr)]

\* payload[k] = v on a payload object (a function from field names to strings)
SetField(payload, k, v) ==
  [f \in DOMAIN payload \cup {k} |-> IF f = k THEN v ELSE payload[f]]

\* querystring.stringify(payload): the form body, a copy of the fields as they
\* are at the moment of the call; a number that is not finite is written as ''
stringify(payload) ==
  {<<f, "=", IF payload[f] = "NaN" THEN "" ELSE payload[f]>> : f \in DOMAIN payload}

\* The value a form body carries for a field
Field(data, f) == {t[3] : t \in {u \in data : u[1] = f}}

\* Array.prototype.join() on the buffered chunks, each a sequence of tokens:
\* the chunks in order with the default separator ',' between them
RECURSIVE join(_)
join(response) ==
  IF response = <<>> THEN <<>>
  ELSE IF Len(response) = 1 THEN response[1]
  ELSE response[1] \o <<",">> \o join(Tail(response))

\* The atoms of a body given as tokens, between the occurrences of a
\* separator: an empty atom where two separators meet or the body ends in one
RECURSIVE splitBy(_, _)
splitBy(body, sep) ==
  IF body = <<>> THEN <<"">>
  ELSE LET rest == splitBy(Tail(body), sep)
       IN  IF Head(body) = sep THEN <<"">> \o rest
           ELSE <<Head(body) \o Head(rest)>> \o Tail(rest)

\* String.prototype.split(' ')
split(body) == splitBy(body, " ")

\* JSON.parse on a body given as tokens "{" key value "," key value ... "}":
\* whether it parses
JSONValid(body) ==
  /\ Len(body) >= 2
  /\ body[1] = "{"
  /\ body[Len(body)] = "}"
  /\ Len(body) = 2 \/ (Len(body) - 2) % 3 = 2
  /\ \A i \in 2..(Len(body) - 1) :
       /\ (body[i] = ",") = ((i - 1) % 3 = 0)
       /\ body[i] \notin {"{", "}"}

\* The first n key/value pairs of the object, in the order of the body; a
\* repeated key reads as its last value
JSONObject(body, n) == [i \in 1..n |-> <<body[3 * i - 1], body[3 * i]>>]

JSONParse(body) == Object(JSONObject(body, (Len(body) - 1) \div 3))

\* csv().from.string(parsed).to.array: the fields of the one line of the body
CSVFields(body) ==
  IF body = <<>> THEN <<>> ELSE splitBy(body, ",")

CSVParse(body) == Array(<<CSVFields(body)>>)

\* ------------------------------------------------- _sendRequest, first part
\* The arguments of the first call of a dispatch's callback; none yet
NoResult == [called |-> FALSE, err |-> NoError, data |-> NoData]

\* The options and body request(endpoint) builds for one HTTP request; the
\* body is serialised from the payload object as it is when request() runs
request(self, endpoint, action, payload) ==
  [client |-> IF self._secure THEN "https" ELSE "http",
   hostname |-> endpoint,
   port |-> IF self._secure THEN 443 ELSE 80,
   path |-> "/" \o action \o "/",
   data |-> stringify(payload)]

\* _sendRequest(method, action, payload, callback) up to req.end(): takes the
\* next endpoint off the shared array and issues the first request.
\* h is the part of the heap a synchronous handler changes as it runs.
_sendRequest(self, h, c, idx, action, payload) ==
  LET s == shift(h.endpoints)
  IN  [endpoints |-> s.rest,
       disp |-> Append(h.disp,
                  [call |-> c, idx |-> idx, action |-> action,
                   attempts |-> <<request(self, s.value, action, payload)>>,
                   st |-> "pending", len |-> 0, chunks |-> 0, cbs |-> 0,
                   res |-> NoResult])]

\* ------------------------------------------------------ when.defer, when.all
Pending == [state |-> "pending", value |-> <<>>]

\* deferred.resolve(value): settles the promise once, later calls are ignored
resolve(promise, value) ==
  IF promise.state = "pending" THEN [state |-> "resolved", value |-> value]
  ELSE promise

\* Mutant of when_all: a result entry that carries an error fails the batch
when_all_failFast(promises) ==
  IF \E k \in 1..Len(promises) :
       promises[k].state = "resolved" /\ promises[k].value.error.type # "null"
  THEN [state |-> "rejected",
        value |-> promises[CHOOSE k \in 1..Len(promises) :
                             /\ promises[k].state = "resolved"
                             /\ promises[k].value.error.type # "null"].value.error]
  ELSE IF \A k \in 1..Len(promises) : promises[k].state = "resolved"
  THEN [state |-> "resolved",
        value |-> [k \in 1..Len(promises) |-> promises[k].value]]
  ELSE Pending

\* when.all(promises): rejected as soon as one input is rejected, resolved
\* with the values in input order once every input is resolved
when_all(promises) ==
  IF \E k \in 1..Len(promises) : promises[k].state = "rejected"
  THEN [state |-> "rejected",
        value |-> promises[CHOOSE k \in 1..Len(promises) :
                             promises[k].state = "rejected"].value]
  ELSE IF \A k \in 1..Len(promises) : promises[k].state = "resolved"
  THEN [state |-> "resolved",
        value |-> [k \in 1..Len(promises) |-> promises[k].value]]
  ELSE Pending

\* ------------------------------------------------------- the onFinish closures
\* The result onFinish of send(phone) resolves its promise with
sendMessage_result(phone, err, data) ==
  IF err.type # "null" THEN [error |-> err, code |-> NULL, phone |-> phone]
  ELSE IF Prop(data, "status") = "OK"
  THEN [error |-> NoError, code |-> Prop(data, "value"), phone |-> phone]
  ELSE [error |-> Error(ErrorMessage(Prop(data, "value"))), code |-> NULL,
        phone |-> phone]

\* Mutant of sendMessage_onFinish: the entry names the recipient found in the
\* shared payload when the request completes
sendMessage_onFinish_sharedPhone(call, k, err, data) ==
  [call EXCEPT !.promises[k] = resolve(@, sendMessage_result(call.message["to"], err, data))]

\* Mutant of sendMessage_onFinish: a failed request rejects its promise
sendMessage_onFinish_reject(call, k, err, data) ==
  [call EXCEPT !.promises[k] =
     IF err.type # "null" /\ @.state = "pending"
     THEN [state |-> "rejected", value |-> err]
     ELSE resolve(@, sendMessage_result(call.items[k], err, data))]

sendMessage_onFinish(call, k, err, data) ==
  [call EXCEPT !.promises[k] = resolve(@, sendMessage_result(call.items[k], err, data))]

\* The result onFinish of getReport(id) resolves its promise with
getReport_result(id, err, data) ==
  IF err.type # "null" THEN [error |-> err, code |-> NULL, report |-> id]
  ELSE IF Prop(data, "status") = "OK"
  THEN [error |-> NoError, code |-> Prop(data, "value"), report |-> id]
  ELSE [error |-> Error(ErrorMessage(Prop(data, "value"))), code |-> NULL,
        report |-> id]

getReport_onFinish(call, k, err, data) ==
  [call EXCEPT !.promises[k] = resolve(@, getReport_result(call.items[k], err, data))]

\* A call of the user's callback(err, result, ids)
Callback(err, result, ids) == [err |-> err, result |-> result, ids |-> ids]

\* parseFloat of a status-value token
parseFloat(value) ==
  CASE value = "12.50" -> "12.5"
    [] value = "0.05" -> "0.05"
    [] value = "101" -> "101"
    [] OTHER -> "NaN"

\* onFinish of getAccountBalance calls the user's callback directly
getAccountBalance_onFinish(call, k, err, data) ==
  [call EXCEPT !.cb = Append(@,
     IF err.type # "null"
     THEN Callback([type |-> "{error,code}", message |-> err.message], UNDEFINED, UNDEFINED)
     ELSE IF Prop(data, "status") = "OK"
     THEN Callback(NoError, parseFloat(Prop(data, "value")), UNDEFINED)
     ELSE Callback(Error(ErrorMessage(Prop(data, "value"))), UNDEFINED, UNDEFINED))]

\* onFinish of getPrices and getPricesForCountry
getPrices_onFinish(call, k, err, data) ==
  [call EXCEPT !.cb = Append(@,
     IF err.type # "null"
     THEN Callback([type |-> "{error,code}", message |-> err.message], UNDEFINED, UNDEFINED)
     ELSE Callback(NoError, data, UNDEFINED))]

\* The callback argument of _sendRequest, by the operation that passed it
onFinish(call, k, err, data) ==
  CASE call.op = "sendMessage" -> sendMessage_onFinish(call, k, err, data)
    [] call.op = "getReport" -> getReport_onFinish(call, k, err, data)
    [] call.op = "getAccountBalance" -> getAccountBalance_onFinish(call, k, err, data)
    [] OTHER -> getPrices_onFinish(call, k, err, data)

\* return callback(err, data) inside a handler of request d, which leaves the
\* request in state st
callback(d, err, data, st) ==
  /\ disp[d].cbs < MaxCallbacks
  /\ disp' = [disp EXCEPT ![d].cbs = @ + 1,
                          ![d].res = IF @.called THEN @
                                     ELSE [called |-> TRUE, err |-> err, data |-> data],
                          ![d].st = st]
  /\ calls' = [calls EXCEPT ![disp[d].call] = onFinish(@, disp[d].idx, err, data)]

\* ------------------------------------------------------------ createClient
\* A call of the callback of createClient: callback(err, client), the client
\* as a list of no or one Client
ClientCallback(err, client) == [err |-> err, client |-> client]

\* The record of one createClient call: its arguments (given: whether a
\* function was passed as callback), the calls it made of the callback, the Client it
\* returned (none: it has no return statement that yields one), and whether it
\* threw (calling a callback that is not a function is a TypeError)
Created(opts, given, cb) ==
  [opts |-> opts, callback |-> given,
   cb |-> IF given THEN cb ELSE <<>>,
   ret |-> <<>>,
   threw |-> ~given]

\* Mutant of createClient: the failure branch does not return
createClient_noReturn(opts, given) ==
  /\ Len(clients) < MaxClients
  /\ clients' = Append(clients,
       IF ~Truthy(opts.username) \/ ~Truthy(opts.password)
       THEN Created(opts, given,
                    <<ClientCallback(Error("Missing credentials"), <<>>),
                      ClientCallback(NoError, <<Client(opts)>>)>>)
       ELSE Created(opts, given, <<ClientCallback(NoError, <<Client(opts)>>)>>))
  /\ UNCHANGED <<endpoints, calls, disp>>

\* Client.createClient(opts, given)
createClient(opts, given) ==
  /\ Len(clients) < MaxClients
  /\ clients' = Append(clients,
       IF ~Truthy(opts.username) \/ ~Truthy(opts.password)
       THEN Created(opts, given,
                    <<ClientCallback(Error("Missing credentials"), <<>>)>>)
       ELSE Created(opts, given, <<ClientCallback(NoError, <<Client(opts)>>)>>))
  /\ UNCHANGED <<endpoints, calls, disp>>

\* The clients the program holds: those its createClient callbacks received
\* and those createClient returned
Clients ==
  {cl \in {Client(o) : o \in ClientOpts} :
     \E i \in 1..Len(clients) :
       \/ clients[i].ret = <<cl>>
       \/ \E k \in 1..Len(clients[i].cb) : clients[i].cb[k].client = <<cl>>}

\* ------------------------------------------------------- public operations
\* The record of one public call: its operation, the client it was made on,
\* whether it passed validation,
\* the recipients or identifiers it fans out over, its payload object (shared
\* by all its requests), one promise per element, whether the when.all
\* handler has run, and the calls made of the user's callback
Call(op, self, valid, items, message, cb) ==
  [op |-> op, self |-> self, valid |-> valid, items |-> items, message |-> message,
   promises |-> [k \in 1..Len(items) |-> Pending], joined |-> FALSE, cb |-> cb]

Credentials(self) == [username |-> self._username, password |-> self._password]

\* Mutant of send: the request is dispatched before the recipient is set
send_staleRecipient(self, h, c, i, message, phone) ==
  [h |-> _sendRequest(self, h, c, i, "send_sms", message),
   message |-> SetField(message, "to", phone)]

\* send(phone): message.to = phone, then _sendRequest('POST', 'send_sms', message, onFinish)
send(self, h, c, i, message, phone) ==
  LET m == SetField(message, "to", phone)
  IN  [h |-> _sendRequest(self, h, c, i, "send_sms", m), message |-> m]

\* for (i = 0; i < opts.to.length; i++) promises.push(send(opts.to[i]))
RECURSIVE sendMessage_loop(_, _, _, _, _, _)
sendMessage_loop(self, h, c, items, message, i) ==
  IF i > Len(items) THEN [h |-> h, message |-> message]
  ELSE LET r == send(self, h, c, i, message, items[i])
       IN  sendMessage_loop(self, r.h, c, items, r.message, i + 1)

\* !opts.to
ToFalsy(to) ==
  \/ to.type = "undefined"
  \/ to.type = "string" /\ ~Truthy(to.v[1])

\* Mutant of recipients: a string is left as it is, and the loop runs over
\* its characters
recipients_noConvert(to) ==
  IF to.type = "string" THEN <<"3", "7">> ELSE to.v

\* if (typeof opts.to === 'string') opts.to = [ opts.to ]: the array the loop
\* over opts.to runs through
recipients(to) ==
  IF to.type = "string" THEN <<to.v[1]>> ELSE to.v

\* Truthiness of opts.timeToSend, and opts.timeToSend instanceof Date
TimeTruthy(t) ==
  \/ t.type = "Date"
  \/ t.type = "string" /\ t.v # ""
  \/ t.type = "number" /\ t.v \notin {"0", "NaN"}

\* Math.round((timeToSend.getTime() + timeToSend.getTimezoneOffset()) / 1000),
\* the clock being on UTC
time_to_send(t) ==
  CASE t.v = "1700000000000" -> "1700000000"
    [] OTHER -> "NaN"

sendMessage(self, opts) ==
  /\ Len(calls) < MaxCalls
  /\ Len(disp) + Len(recipients(opts.to)) <= MaxRequests
  /\ LET c == Len(calls) + 1
     IN  IF ~Truthy(opts.text) \/ ToFalsy(opts.to)
         THEN /\ calls' = Append(calls,
                   Call("sendMessage", self, FALSE, <<>>, Credentials(self),
                        <<Callback(Error("Missing message content or target phone number(s)"),
                                   UNDEFINED, UNDEFINED)>>))
              /\ UNCHANGED <<clients, endpoints, disp>>
         ELSE IF TimeTruthy(opts.timeToSend) /\ opts.timeToSend.type # "Date"
         THEN /\ calls' = Append(calls,
                   Call("sendMessage", self, FALSE, <<>>, Credentials(self),
                        <<Callback(Error("Date object is required"), UNDEFINED, UNDEFINED)>>))
              /\ UNCHANGED <<clients, endpoints, disp>>
         ELSE LET built == [username |-> self._username,
                            password |-> self._password,
                            text |-> opts.text,
                            autoconvert |-> "false",
                            charset |-> IF Truthy(opts.chartset) THEN opts.charset
                                        ELSE "UTF8"]
                  message == IF TimeTruthy(opts.timeToSend)
                             THEN SetField(built, "time_to_send",
                                           time_to_send(opts.timeToSend))
                             ELSE built
                  to == recipients(opts.to)
                  r == sendMessage_loop(self, [endpoints |-> endpoints, disp |-> disp],
                                        c, to, message, 1)
              IN  /\ calls' = Append(calls,
                                     Call("sendMessage", self, TRUE, to, r.message, <<>>))
                  /\ endpoints' = r.h.endpoints
                  /\ disp' = r.h.disp
                  /\ UNCHANGED clients

\* The ids the when.all handler of sendMessage extracts from the results
RECURSIVE sendMessage_ids_loop(_, _)
sendMessage_ids_loop(results, i) ==
  IF i > Len(results) THEN <<>>
  ELSE IF results[i].error.type = "null" /\ Truthy(results[i].code)
  THEN <<results[i].code>> \o sendMessage_ids_loop(results, i + 1)
  ELSE sendMessage_ids_loop(results, i + 1)

sendMessage_ids(results) == sendMessage_ids_loop(results, 1)

\* when.all(promises).then(...) of sendMessage
sendMessage_then(c) ==
  /\ calls[c].op = "sendMessage"
  /\ calls[c].valid
  /\ ~calls[c].joined
  /\ LET p == when_all(calls[c].promises)
     IN  /\ p.state # "pending"
         /\ calls' = [calls EXCEPT
              ![c].joined = TRUE,
              ![c].cb = Append(@,
                 IF p.state = "resolved"
                 THEN Callback(NoError, p.value, sendMessage_ids(p.value))
                 ELSE Callback(p.value, UNDEFINED, UNDEFINED))]
  /\ UNCHANGED <<clients, endpoints, disp>>

\* The inner getReport(id): message.sms_unique_id = id, then
\* _sendRequest('POST', 'get_dlr_response', message, onFinish)
getReport_getReport(self, h, c, i, message, id) ==
  LET m == SetField(message, "sms_unique_id", id)
  IN  [h |-> _sendRequest(self, h, c, i, "get_dlr_response", m), message |-> m]

RECURSIVE getReport_loop(_, _, _, _, _, _)
getReport_loop(self, h, c, items, message, i) ==
  IF i > Len(items) THEN [h |-> h, message |-> message]
  ELSE LET r == getReport_getReport(self, h, c, i, message, items[i])
       IN  getReport_loop(self, r.h, c, items, r.message, i + 1)

getReport(self, ids) ==
  /\ Len(calls) < MaxCalls
  /\ Len(disp) + Len(ids) <= MaxRequests
  /\ LET c == Len(calls) + 1
         r == getReport_loop(self, [endpoints |-> endpoints, disp |-> disp],
                             c, ids, Credentials(self), 1)
     IN  /\ calls' = Append(calls, Call("getReport", self, TRUE, ids, r.message, <<>>))
         /\ endpoints' = r.h.endpoints
         /\ disp' = r.h.disp
         /\ UNCHANGED clients

\* when.all(promises).then(...) of getReport
getReport_then(c) ==
  /\ calls[c].op = "getReport"
  /\ ~calls[c].joined
  /\ LET p == when_all(calls[c].promises)
     IN  /\ p.state # "pending"
         /\ calls' = [calls EXCEPT
              ![c].joined = TRUE,
              ![c].cb = Append(@,
                 IF p.state = "resolved"
                 THEN Callback(NoError, p.value, UNDEFINED)
                 ELSE Callback(p.value, UNDEFINED, UNDEFINED))]
  /\ UNCHANGED <<clients, endpoints, disp>>

\* getAccountBalance, getPrices, getPricesForCountry: one request each
Single(self, op, action, payload) ==
  /\ Len(calls) < MaxCalls
  /\ Len(disp) < MaxRequests
  /\ LET c == Len(calls) + 1
         h == _sendRequest(self, [endpoints |-> endpoints, disp |-> disp],
                           c, 1, action, payload)
     IN  /\ calls' = Append(calls, Call(op, self, TRUE, <<>>, payload, <<>>))
         /\ endpoints' = h.endpoints
         /\ disp' = h.disp
         /\ UNCHANGED clients

getAccountBalance(self) ==
  Single(self, "getAccountBalance", "get_balance", Credentials(self))

getPrices(self) == Single(self, "getPrices", "pricelist", Credentials(self))

getPricesForCountry(self, country) ==
  Single(self, "getPricesForCountry", "prices",
         SetField(Credentials(self), "country", country))

\* ------------------------------------------- _sendRequest, the event handlers
\* The state of the current request of a dispatch:
\*   pending    issued, nothing received yet
\*   streaming  'response' emitted, the body is arriving
\*   aborted    req.abort() was called by the size guard
\*   ended      'end' emitted
\*   failed     'error' emitted and no endpoint was left

\* Mutant of onError: nothing is reported when no endpoint is left
onError_silent(d) ==
  /\ disp[d].st \in {"pending", "streaming"}
  /\ IF Len(endpoints) > 0
     THEN LET s == shift(endpoints)
          IN  /\ endpoints' = s.rest
              /\ disp' = [disp EXCEPT
                   ![d].attempts = Append(@, request(calls[disp[d].call].self, s.value, disp[d].action,
                                                      calls[disp[d].call].message)),
                   ![d].st = "pending",
                   ![d].len = 0,
                   ![d].chunks = 0]
     ELSE /\ disp' = [disp EXCEPT ![d].st = "failed"]
          /\ UNCHANGED endpoints
  /\ UNCHANGED <<clients, calls>>

\* req.on('error'): retry on the next endpoint of the shared array, or report
\* that no endpoint could be reached.  The transport emits 'error' on a request
\* that has not received its whole response.
onError(d) ==
  /\ disp[d].st \in {"pending", "streaming"}
  /\ IF Len(endpoints) > 0
     THEN LET s == shift(endpoints)
          IN  /\ endpoints' = s.rest
              /\ disp' = [disp EXCEPT
                   ![d].attempts = Append(@, request(calls[disp[d].call].self, s.value, disp[d].action,
                                                      calls[disp[d].call].message)),
                   ![d].st = "pending",
                   ![d].len = 0,
                   ![d].chunks = 0]
              /\ UNCHANGED calls
     ELSE /\ callback(d, Error("Unable to connect API endpoint"), NoData, "failed")
          /\ UNCHANGED endpoints
  /\ UNCHANGED clients

\* req.on('response'): registers the data and end handlers
onResponse(d) ==
  /\ disp[d].st = "pending"
  /\ disp' = [disp EXCEPT ![d].st = "streaming"]
  /\ UNCHANGED <<clients, endpoints, calls>>

\* res.on('data') with a chunk of n characters: the chunk is pushed to the
\* response array (of which the state keeps the length; its content is read
\* by onEnd only) or the request is aborted.  After req.abort() the chunks
\* already read from the socket are still delivered.
onData(d, n) ==
  /\ disp[d].st \in {"streaming", "aborted"}
  /\ disp[d].len >= LIMIT \/ disp[d].chunks < MaxChunks
  /\ IF disp[d].len < LIMIT
     THEN /\ disp' = [disp EXCEPT ![d].len = @ + n, ![d].chunks = @ + 1]
          /\ UNCHANGED calls
     ELSE callback(d, Error("Response body is too long"), NoData, "aborted")
  /\ UNCHANGED <<clients, endpoints>>

\* What onEnd does with the joined body: the callback arguments, or no call of
\* the callback at all
Decode(ctype, body) ==
  IF Match(ctype, "json") \/ (body # <<>> /\ body[1] = "{")
  THEN IF JSONValid(body)
       THEN [called |-> TRUE, err |-> NoError, data |-> JSONParse(body)]
       ELSE [called |-> TRUE, err |-> Error("Invalid JSON response"), data |-> NoData]
  ELSE IF Match(ctype, "text/html")
  THEN LET atoms == split(body)
       IN  IF Len(atoms) < 2
           THEN [called |-> TRUE, err |-> Error("Invalid status-value response"),
                 data |-> NoData]
           ELSE [called |-> TRUE, err |-> NoError,
                 data |-> Object(<<<<"status", atoms[1]>>, <<"value", atoms[2]>>>>)]
  ELSE IF Match(ctype, "text/csv")
  THEN [called |-> TRUE, err |-> NoError, data |-> CSVParse(body)]
  ELSE [called |-> FALSE, err |-> NoError, data |-> NoData]

\* The value the gateway answers a request with when it accepts it: the
\* identifier of the message queued for the recipient named in the body, the
\* delivery status of a message, the balance
GatewayValue(req) ==
  CASE req.path = "/send_sms/" ->
         IF \E k \in 1..Len(Phones) : Phones[k] \in Field(req.data, "to")
         THEN Ids[CHOOSE k \in 1..Len(Phones) : Phones[k] \in Field(req.data, "to")]
         ELSE "id0"
    [] req.path = "/get_dlr_response/" -> "DELIVERED"
    [] OTHER -> "12.50"

\* The responses the gateway may give to a request: content type and body, the
\* body as a sequence of lexical tokens (" " is one space, "," one comma).  A
\* response that delivered no data has the empty body.
Responses(req) ==
  LET v == GatewayValue(req)
  IN  { [ctype |-> "text/html", body |-> <<"OK", " ", v>>],
        [ctype |-> "text/html", body |-> <<"OK", " ">>],
        [ctype |-> "text/html", body |-> <<"OK">>],
        [ctype |-> "text/html", body |-> <<"ERROR", " ", "107">>],
        [ctype |-> "text/html", body |-> <<"ERROR", " ", "999">>],
        [ctype |-> "text/html", body |-> <<"ERROR", " ", "constructor">>],
        [ctype |-> "text/html", body |-> <<"{", "status", "OK", "}">>],
        [ctype |-> "application/json",
         body |-> <<"{", "status", "OK", ",", "value", v, "}">>],
        [ctype |-> "application/json", body |-> <<"{", "status", "OK", "value", v, "}">>],
        [ctype |-> "application/json", body |-> <<"{", "status", "OK", "}">>],
        [ctype |-> "application/json", body |-> <<"{", "status", "OK">>],
        [ctype |-> "text/csv", body |-> <<"EE", ",", "0.05">>],
        [ctype |-> "text/plain", body |-> <<"OK", " ", v>>] }

EmptyResponses == {[ctype |-> ct, body |-> <<>>] : ct \in ContentTypes}

\* The ways the transport delivers a body in n 'data' chunks: n non-empty
\* pieces that make up the body, in order
RECURSIVE Splits(_, _)
Splits(body, n) ==
  IF n = 0 THEN IF body = <<>> THEN {<<>>} ELSE {}
  ELSE IF n = 1 THEN IF body = <<>> THEN {} ELSE {<<body>>}
  ELSE UNION {{<<SubSeq(body, 1, i)>> \o rest :
                 rest \in Splits(SubSeq(body, i + 1, Len(body)), n - 1)} :
              i \in 1..(Len(body) - 1)}

\* Mutant of onEnd: a decoded status other than OK is retried on the next
\* endpoint like a transport error
onEnd_failover(d, ctype, response) ==
  /\ disp[d].st \in {"streaming", "aborted"}
  /\ Len(response) = disp[d].chunks
  /\ LET r == Decode(ctype, join(response))
     IN  IF r.called /\ r.err.type = "null" /\ Prop(r.data, "status") # "OK"
            /\ Len(endpoints) > 0
         THEN /\ endpoints' = shift(endpoints).rest
              /\ disp' = [disp EXCEPT
                   ![d].attempts = Append(@, request(calls[disp[d].call].self, shift(endpoints).value, disp[d].action,
                                                      calls[disp[d].call].message)),
                   ![d].st = "pending",
                   ![d].len = 0,
                   ![d].chunks = 0]
              /\ UNCHANGED calls
         ELSE /\ IF r.called
                 THEN callback(d, r.err, r.data, "ended")
                 ELSE /\ disp' = [disp EXCEPT ![d].st = "ended"]
                      /\ UNCHANGED calls
              /\ UNCHANGED endpoints
  /\ UNCHANGED clients

\* res.on('end') for a response of the given content type whose chunks were
\* buffered in the response array; an aborted response still emits 'end'
onEnd(d, ctype, response) ==
  /\ disp[d].st \in {"streaming", "aborted"}
  /\ Len(response) = disp[d].chunks
  /\ LET r == Decode(ctype, join(response))
     IN  IF r.called
         THEN callback(d, r.err, r.data, "ended")
         ELSE /\ disp' = [disp EXCEPT ![d].st = "ended"]
              /\ UNCHANGED calls
  /\ UNCHANGED <<clients, endpoints>>

\* ---------------------------------------------------------- specification
Init ==
  /\ clients = <<>>
  /\ endpoints = _ENDPOINTS
  /\ calls = <<>>
  /\ disp = <<>>

Next ==
  \/ \E opts \in ClientOpts, given \in BOOLEAN : createClient(opts, given)
  \/ \E self \in Clients, text \in Texts, to \in ToInputs, o \in SendOptions :
       sendMessage(self, MessageOpts(text, to, o))
  \/ \E self \in Clients, ids \in Prefixes(Ids) : getReport(self, ids)
  \/ \E self \in Clients : getAccountBalance(self)
  \/ \E self \in Clients : getPrices(self)
  \/ \E self \in Clients, country \in {"EE"} : getPricesForCountry(self, country)
  \/ \E c \in 1..Len(calls) : sendMessage_then(c)
  \/ \E c \in 1..Len(calls) : getReport_then(c)
  \/ \E d \in 1..Len(disp) : onError(d)
  \/ \E d \in 1..Len(disp) : onResponse(d)
  \/ \E d \in 1..Len(disp), n \in ChunkLens : onData(d, n)
  \/ \E d \in 1..Len(disp) :
       \E r \in Responses(disp[d].attempts[Len(disp[d].attempts)]) \cup EmptyResponses :
         \E response \in Splits(r.body, disp[d].chunks) : onEnd(d, r.ctype, response)

Spec == Init /\ [][Next]_vars

\* The transport settles every request it was handed: a request that is waiting
\* for its response receives the response or an error event
Settle(d) == d \in 1..Len(disp) /\ (onError(d) \/ onResponse(d))

SpecSettled == Spec /\ \A d \in 1..MaxRequests : WF_vars(Settle(d))

\* The transport completes every request it was handed: the request receives
\* the whole of a response, or an error event
Complete(d) ==
  /\ d \in 1..Len(disp)
  /\ \/ onError(d)
     \/ onResponse(d)
     \/ \E r \in Responses(disp[d].attempts[Len(disp[d].attempts)]) \cup EmptyResponses :
          \E response \in Splits(r.body, disp[d].chunks) : onEnd(d, r.ctype, response)

\* The handler registered with when.all(promises).then runs once the promise
\* is settled
Then(c) == c \in 1..Len(calls) /\ (sendMessage_then(c) \/ getReport_then(c))

SpecCompleted ==
  /\ Spec
  /\ \A d \in 1..MaxRequests : WF_vars(Complete(d))
  /\ \A c \in 1..MaxCalls : WF_vars(Then(c))

\* ------------------------------------------------------------------ claims
FanOut(c) == calls[c].op \in {"sendMessage", "getReport"} /\ calls[c].valid

\* The field of the payload that names the recipient or the identifier
KeyField(c) == IF calls[c].op = "sendMessage" THEN "to" ELSE "sms_unique_id"

\* The dispatches made by call c
DispOf(c) == {d \in 1..Len(disp) : disp[d].call = c}

\* A form body without one field
Without(data, f) == {t \in data : t[1] # f}

\* C1: every request issued for recipient r of a sendMessage call, first
\* attempt or retry, carries to = r, and every request issued for identifier i
\* of a getReport call carries sms_unique_id = i; the other fields of the body
\* are the same for all requests of the call.
C1_RequestCarriesItsRecipient ==
  \A d \in 1..Len(disp) :
    LET c == disp[d].call
    IN  FanOut(c) =>
          \A a \in 1..Len(disp[d].attempts) :
            /\ Field(disp[d].attempts[a].data, KeyField(c)) = {calls[c].items[disp[d].idx]}
            /\ \A d2 \in DispOf(c) : \A a2 \in 1..Len(disp[d2].attempts) :
                 Without(disp[d2].attempts[a2].data, KeyField(c))
                   = Without(disp[d].attempts[a].data, KeyField(c))

\* A failover retry was issued for a recipient of a sendMessage call
C1_Witness ==
  \E d \in 1..Len(disp) :
    /\ calls[disp[d].call].op = "sendMessage"
    /\ Len(disp[d].attempts) = 2
    /\ Field(disp[d].attempts[2].data, "to") = {calls[disp[d].call].items[disp[d].idx]}

\* C2: the first attempt of every call goes to the primary host, a call that
\* reports a transport failure has tried the fallback, and no request is
\* addressed to a host outside the configured list.
C2_CallsDoNotShareEndpoints ==
  \A d \in 1..Len(disp) :
    /\ disp[d].attempts[1].hostname = _ENDPOINTS[1]
    /\ Len(disp[d].attempts) >= 2 => disp[d].attempts[2].hostname = _ENDPOINTS[2]
    /\ disp[d].st = "failed" => Len(disp[d].attempts) = Len(_ENDPOINTS)
    /\ \A a \in 1..Len(disp[d].attempts) :
         \E e \in 1..Len(_ENDPOINTS) : disp[d].attempts[a].hostname = _ENDPOINTS[e]

\* The name a result entry gives its recipient or identifier
Named(c, r) == IF calls[c].op = "sendMessage" THEN r.phone ELSE r.report

\* C3: the results a fan-out call passes to its callback have one entry per
\* input element, and entry k names the k-th input element.
C3_ResultsFollowInputOrder ==
  \A c \in 1..Len(calls) :
    FanOut(c) =>
      \A i \in 1..Len(calls[c].cb) :
        calls[c].cb[i].err.type = "null" =>
          /\ Len(calls[c].cb[i].result) = Len(calls[c].items)
          /\ \A k \in 1..Len(calls[c].items) :
               Named(c, calls[c].cb[i].result[k]) = calls[c].items[k]

\* A batch of two was reported with the first entry failed and the second sent
C3_Witness ==
  \E c \in 1..Len(calls) :
    /\ FanOut(c)
    /\ Len(calls[c].items) = 2
    /\ Len(calls[c].cb) = 1
    /\ calls[c].cb[1].result[1].error.type = "Error"
    /\ calls[c].cb[1].result[2].error.type = "null"
    /\ Named(c, calls[c].cb[1].result[2]) = calls[c].items[2]

\* C4: the ids passed by sendMessage are exactly the codes of the entries
\* whose error is null, in input order.
C4_IdsAreTheErrorFreeCodes ==
  \A c \in 1..Len(calls) :
    calls[c].op = "sendMessage" /\ calls[c].valid =>
      \A i \in 1..Len(calls[c].cb) :
        calls[c].cb[i].err.type = "null" =>
          LET sent == SelectSeq(calls[c].cb[i].result, LAMBDA r : r.error.type = "null")
          IN  /\ Len(calls[c].cb[i].ids) = Len(sent)
              /\ \A k \in 1..Len(sent) : calls[c].cb[i].ids[k] = sent[k].code

\* The dispatch of element k of call c
DispatchOf(c, k) == CHOOSE d \in DispOf(c) : disp[d].idx = k

\* The response of dispatch d was decoded as status OK
GotOK(d) ==
  /\ disp[d].res.called
  /\ disp[d].res.err.type = "null"
  /\ Prop(disp[d].res.data, "status") = "OK"

\* C5: a fan-out call with valid input calls back with a null error and the
\* full results, and every element whose own request was answered OK is
\* reported with error null and the code of that answer.
C5_FailuresStayInTheirSlot ==
  \A c \in 1..Len(calls) :
    FanOut(c) =>
      \A i \in 1..Len(calls[c].cb) :
        /\ calls[c].cb[i].err.type = "null"
        /\ Len(calls[c].cb[i].result) = Len(calls[c].items)
        /\ \A k \in 1..Len(calls[c].items) :
             GotOK(DispatchOf(c, k)) =>
               /\ calls[c].cb[i].result[k].error.type = "null"
               /\ calls[c].cb[i].result[k].code
                    = Prop(disp[DispatchOf(c, k)].res.data, "value")

\* A batch of two was reported in which the first request could not connect
\* and the second was answered OK
C5_Witness ==
  \E c \in 1..Len(calls) :
    /\ FanOut(c)
    /\ Len(calls[c].items) = 2
    /\ Len(calls[c].cb) = 1
    /\ disp[DispatchOf(c, 1)].st = "failed"
    /\ GotOK(DispatchOf(c, 2))
    /\ calls[c].cb[1].result[2].error.type = "null"

\* The current request of dispatch d has received a response
Answered(d) == disp[d].st \in {"streaming", "aborted", "ended"}

\* C6: a dispatch whose requests are never answered, each failing at transport
\* level, comes to report 'Unable to connect API endpoint' to its callback,
\* after no more attempts than there are endpoints.
C6_UnreachableIsReported ==
  \A d \in 1..MaxRequests :
    [](d <= Len(disp) =>
         <>(/\ d <= Len(disp)
            /\ \/ Answered(d)
               \/ /\ disp[d].st = "failed"
                  /\ disp[d].cbs = 1
                  /\ disp[d].res.err = Error("Unable to connect API endpoint")
                  /\ Len(disp[d].attempts) <= Len(_ENDPOINTS)))

\* A call reported the error after failing on the primary and on the fallback
C6_Witness ==
  \E d \in 1..Len(disp) :
    /\ disp[d].st = "failed"
    /\ Len(disp[d].attempts) = 2
    /\ disp[d].res.err = Error("Unable to connect API endpoint")

\* C7: a request is issued for a dispatch only while its current request has
\* had no response outcome: once a response was decoded or aborted for it, or
\* its callback was called, the dispatch issues no further request.
C7_FailoverOnlyOnTransportError ==
  [][\A d \in 1..Len(disp) :
       Len(disp'[d].attempts) # Len(disp[d].attempts) =>
         /\ disp[d].st \in {"pending", "streaming"}
         /\ disp[d].cbs = 0]_vars

\* An error status was decoded for a request on the primary host while the
\* fallback was still unused, and no second request was issued
C7_Witness ==
  \E d \in 1..Len(disp) :
    /\ disp[d].st = "ended"
    /\ disp[d].res.called
    /\ disp[d].res.err.type = "null"
    /\ Prop(disp[d].res.data, "status") = "ERROR"
    /\ Len(disp[d].attempts) = 1
    /\ Len(endpoints) > 0

\* C8: the callback of a dispatch is called at most once, and so is the
\* callback of every public call.
C8_CallbackAtMostOnce ==
  /\ \A d \in 1..Len(disp) : disp[d].cbs <= 1
  /\ \A c \in 1..Len(calls) : Len(calls[c].cb) <= 1

\* C9: a result entry with a null error has a code, and one with an error has
\* a null code.
C9_ErrorXorCode ==
  \A c \in 1..Len(calls) :
    FanOut(c) =>
      \A k \in 1..Len(calls[c].promises) :
        calls[c].promises[k].state = "resolved" =>
          LET r == calls[c].promises[k].value
          IN  /\ r.error.type = "null" => r.code \notin {NULL, UNDEFINED}
              /\ r.error.type # "null" => r.code = NULL

\* C10: every request of a fan-out call is issued by the call itself, and its
\* callback is called only when every one of its dispatches has called back.
C10_CallbackAfterAllSettled ==
  \A c \in 1..Len(calls) :
    FanOut(c) =>
      /\ Cardinality(DispOf(c)) = Len(calls[c].items)
      /\ Len(calls[c].cb) > 0 => \A d \in DispOf(c) : disp[d].cbs > 0

\* A batch of two was reported after both requests settled, one of them failed
C10_Witness ==
  \E c \in 1..Len(calls) :
    /\ FanOut(c)
    /\ Len(calls[c].items) = 2
    /\ Len(calls[c].cb) = 1
    /\ \A d \in DispOf(c) : disp[d].cbs > 0
    /\ \E d \in DispOf(c) : disp[d].res.err.type = "Error"

\* C11: a sendMessage call whose text is missing or empty, or whose to is
\* missing, empty or an empty list, issues no request and every call it makes
\* of its callback passes an error.  (A call that failed validation had such
\* an input; a call that passed it had a non-empty text, and its recipients
\* are its items.)
C11_InvalidMessageIsRefused ==
  \A c \in 1..Len(calls) :
    calls[c].op = "sendMessage" /\ (~calls[c].valid \/ calls[c].items = <<>>) =>
      /\ DispOf(c) = {}
      /\ \A k \in 1..Len(calls[c].cb) : calls[c].cb[k].err.type = "Error"

\* Username and password are both given and non-empty
ValidCredentials(opts) == Truthy(opts.username) /\ Truthy(opts.password)

\* C12: createClient(opts, callback) calls the callback exactly once and does
\* not throw: with valid credentials it passes a null error and the Client
\* built from opts, with a missing or empty username or password it passes a
\* 'Missing credentials' error and no client; and the step that makes the
\* call issues no request and leaves the endpoint list alone.
C12_CreateClientReportsOnce ==
  /\ [](\A i \in 1..Len(clients) :
         clients[i].callback =>
           /\ Len(clients[i].cb) = 1
           /\ ~clients[i].threw
           /\ IF ValidCredentials(clients[i].opts)
              THEN /\ clients[i].cb[1].err = NoError
                   /\ clients[i].cb[1].client = <<Client(clients[i].opts)>>
                   /\ Client(clients[i].opts) \in Clients
              ELSE /\ clients[i].cb[1].err = Error("Missing credentials")
                   /\ clients[i].cb[1].client = <<>>)
  /\ [][clients' # clients => disp' = disp /\ endpoints' = endpoints]_vars

\* createClient was called with a callback and without a password
C12_Witness ==
  \E i \in 1..Len(clients) :
    /\ clients[i].callback
    /\ clients[i].opts.username = "user"
    /\ clients[i].opts.password = UNDEFINED
    /\ clients[i].cb # <<>>

\* C13: createClient(opts) with valid credentials and no callback does not
\* throw and returns the Client built from opts.
C13_CreateClientReturnsClient ==
  \A i \in 1..Len(clients) :
    ~clients[i].callback /\ ValidCredentials(clients[i].opts) =>
      /\ ~clients[i].threw
      /\ clients[i].ret = <<Client(clients[i].opts)>>

\* C14: a sendMessage step made with to given as the string s is the same
\* step as the one made with to given as the list [s]: the same request is
\* issued and the call is left in the same state, so that the results and ids
\* reported for it afterwards are the same.
C14_StringIsOneElementList ==
  [][\A self \in Clients, text \in Texts, o \in SendOptions,
        s \in {Phones[k] : k \in 1..Len(Phones)} :
       sendMessage(self, MessageOpts(text, [type |-> "string", v |-> <<s>>], o))
         <=> sendMessage(self, MessageOpts(text, [type |-> "array", v |-> <<s>>], o))]_vars

\* A call for the one recipient s, as made with to = s, has issued one request
\* with to = s and reported its result and id
C14_Witness ==
  \E c \in 1..Len(calls) :
    /\ calls[c].op = "sendMessage"
    /\ calls[c].items = <<Phones[1]>>
    /\ \E d \in DispOf(c) : Field(disp[d].attempts[1].data, "to") = {Phones[1]}
    /\ calls[c].cb # <<>>
    /\ calls[c].cb[1].err = NoError
    /\ Len(calls[c].cb[1].ids) = 1

\* The Error Code Table: the listed codes with their messages, 'Unknown error'
\* for every other value
ErrorCodeTable(c) ==
  IF c \in {"101", "102", "103", "104", "105", "106", "107", "111", "208", "209"}
  THEN _ERRORS[c]
  ELSE "Unknown error"

\* The error reported for the recipient, report or balance query of dispatch d
Reported(d) ==
  LET c == disp[d].call
  IN  IF calls[c].op = "getAccountBalance" THEN calls[c].cb[1].err
      ELSE calls[c].promises[disp[d].idx].value.error

\* Dispatch d first called back with a decoded status-value response that is
\* not OK
GotNotOK(d) ==
  /\ disp[d].res.called
  /\ disp[d].res.err = NoError
  /\ disp[d].res.data.t = "object"
  /\ Prop(disp[d].res.data, "status") # "OK"

\* C15: when a request of sendMessage, getReport or getAccountBalance is
\* answered with a status other than OK and the value c, the error reported
\* for it carries the message listed for c (for 107, 'Not enough credit on
\* account.'), and 'Unknown error' when c is not a listed code.
C15_ErrorCodeTableMessages ==
  /\ ErrorCodeTable("107") = "Not enough credit on account."
  /\ \A d \in 1..Len(disp) :
       /\ calls[disp[d].call].op \in {"sendMessage", "getReport", "getAccountBalance"}
       /\ GotNotOK(d)
       => Reported(d) = Error(ErrorCodeTable(Prop(disp[d].res.data, "value")))

\* C16: every call getAccountBalance makes of its callback passes either an
\* Error and no value, or a null error and a value; the first one passes the
\* number parsed from the value of an OK response, the listed message of the
\* code of a response that is not OK, and an Error when the request or the
\* decoding failed.
C16_BalanceErrorXorValue ==
  \A c \in 1..Len(calls) :
    calls[c].op = "getAccountBalance" =>
      /\ \A k \in 1..Len(calls[c].cb) :
           \/ calls[c].cb[k].err.type = "Error" /\ calls[c].cb[k].result = UNDEFINED
           \/ calls[c].cb[k].err = NoError /\ calls[c].cb[k].result # UNDEFINED
      /\ \A d \in DispOf(c) :
           disp[d].res.called =>
             calls[c].cb[1] =
               IF disp[d].res.err # NoError
               THEN Callback(disp[d].res.err, UNDEFINED, UNDEFINED)
               ELSE IF Prop(disp[d].res.data, "status") = "OK"
               THEN Callback(NoError, parseFloat(Prop(disp[d].res.data, "value")), UNDEFINED)
               ELSE Callback(Error(ErrorCodeTable(Prop(disp[d].res.data, "value"))),
                             UNDEFINED, UNDEFINED)

\* C17: a request whose buffered body has grown beyond 1 MiB has been aborted
\* and has reported the too-long error; it never goes on to be decoded.
C17_OversizedBodyIsAborted ==
  \A d \in 1..Len(disp) :
    disp[d].len > LIMIT =>
      /\ disp[d].st = "aborted"
      /\ disp[d].res.called
      /\ disp[d].res.err = Error("Response body is too long")

\* The tokens of a body: what is left between the whitespace
Tokens(body) == SelectSeq(body, LAMBDA t : t # " ")

\* C18: when a text/html response (not one that starts with '{') that came
\* in at most one chunk ends, the
\* callback gets an 'Invalid status-value response' error if the body has
\* fewer than two tokens, and otherwise status = first token, value = second
\* token.
C18_StatusValueDecoding ==
  [][\A d \in 1..Len(disp) :
       \A r \in Responses(disp[d].attempts[Len(disp[d].attempts)]) \cup EmptyResponses :
         /\ r.ctype = "text/html"
         /\ (r.body = <<>> \/ r.body[1] # "{")
         /\ disp[d].cbs = 0
         /\ disp[d].chunks <= 1
         /\ onEnd(d, r.ctype, IF r.body = <<>> THEN <<>> ELSE <<r.body>>)
         => disp'[d].res =
              IF Len(Tokens(r.body)) < 2
              THEN [called |-> TRUE, err |-> Error("Invalid status-value response"),
                    data |-> NoData]
              ELSE [called |-> TRUE, err |-> NoError,
                    data |-> Object(<<<<"status", Tokens(r.body)[1]>>,
                                      <<"value", Tokens(r.body)[2]>>>>)]]_vars

\* C19: when a response ends whose content type is JSON or whose body starts
\* with '{', and whose body is not valid JSON, the callback is called exactly
\* once by that event, with an 'Invalid JSON response' error and no data.
C19_InvalidJSONIsAnError ==
  [][\A d \in 1..Len(disp) :
       \A r \in Responses(disp[d].attempts[Len(disp[d].attempts)]) \cup EmptyResponses :
        \A response \in Splits(r.body, disp[d].chunks) :
         /\ Match(r.ctype, "json") \/ (r.body # <<>> /\ r.body[1] = "{")
         /\ ~JSONValid(r.body)
         /\ onEnd(d, r.ctype, response)
         => /\ disp'[d].cbs = disp[d].cbs + 1
            /\ disp[d].cbs = 0 =>
                 disp'[d].res = [called |-> TRUE, err |-> Error("Invalid JSON response"),
                                 data |-> NoData]
            /\ calls' = [calls EXCEPT ![disp[d].call] =
                 onFinish(@, disp[d].idx, Error("Invalid JSON response"), NoData)]]_vars

\* C20: every request of a call made on a client goes over HTTPS to port 443
\* when the client was created with secure omitted or true, and over HTTP to
\* port 80 when it was created with secure = false.
C20_TransportFollowsSecure ==
  \A i \in 1..Len(clients) :
    \A k \in 1..Len(clients[i].cb) :
      \A c \in 1..Len(calls) :
        clients[i].cb[k].client = <<calls[c].self>> =>
          \A d \in DispOf(c) :
            \A a \in 1..Len(disp[d].attempts) :
              IF ~clients[i].opts.hasSecure \/ clients[i].opts.secure
              THEN /\ disp[d].attempts[a].client = "https"
                   /\ disp[d].attempts[a].port = 443
              ELSE /\ disp[d].attempts[a].client = "http"
                   /\ disp[d].attempts[a].port = 80

\* A client created without the secure option has sent a request and its retry
C20_Witness ==
  \E i \in 1..Len(clients) :
    /\ ~clients[i].opts.hasSecure
    /\ clients[i].cb # <<>>
    /\ \E d \in 1..Len(disp) :
         /\ clients[i].cb[1].client = <<calls[disp[d].call].self>>
         /\ Len(disp[d].attempts) = 2
         /\ disp[d].attempts[2].port = 443

\* C21: every request a sendMessage step issues carries the charset given in
\* the options, and 'UTF8' when the options give none.
C21_CharsetFollowsOption ==
  [][\A self \in Clients, text \in Texts, to \in ToInputs, o \in SendOptions :
       sendMessage(self, MessageOpts(text, to, o)) =>
         \A d \in (Len(disp) + 1)..Len(disp') :
           \A a \in 1..Len(disp'[d].attempts) :
             Field(disp'[d].attempts[a].data, "charset")
               = {IF o.charset = UNDEFINED THEN "UTF8" ELSE o.charset}]_vars

\* timeToSend is supplied and is not a Date holding a valid time
InvalidTimeToSend(t) ==
  /\ t.type # "undefined"
  /\ ~(t.type = "Date" /\ t.v # "NaN")

\* C22: a sendMessage step with a text and at least one recipient, whose
\* timeToSend is supplied and is not a valid timestamp (a value that is not a
\* Date, falsy or not, or a Date holding an invalid time), issues no request
\* and passes an error to the callback.
C22_InvalidTimeToSendIsRefused ==
  [][\A self \in Clients, text \in Texts, to \in ToInputs, o \in SendOptions :
       /\ Truthy(text)
       /\ recipients(to) # <<>>
       /\ InvalidTimeToSend(o.timeToSend)
       /\ sendMessage(self, MessageOpts(text, to, o))
       => /\ disp' = disp
          /\ Len(calls'[Len(calls')].cb) = 1
          /\ calls'[Len(calls')].cb[1].err.type = "Error"]_vars

\* C23: when every request receives a complete response or a transport error,
\* every public call comes to call its callback, whatever the content type of
\* the responses.
C23_EveryCallCallsBack ==
  \A c \in 1..MaxCalls :
    [](c <= Len(calls) => <>(c <= Len(calls) /\ calls[c].cb # <<>>))

\* The body the transport delivered: the pieces one after the other
RECURSIVE Concat(_)
Concat(response) ==
  IF response = <<>> THEN <<>> ELSE response[1] \o Concat(Tail(response))

\* What the decoder makes of a body: the result the first callback of the
\* request is given, or the result so far when no callback is made
Decoded(d, ctype, body) ==
  LET r == Decode(ctype, body)
  IN  IF r.called THEN [called |-> TRUE, err |-> r.err, data |-> r.data]
      ELSE disp[d].res

\* C24: when a response ends, the result given to the callback is what the
\* decoder makes of the chunks put one after the other, the same as if the
\* body had come in one chunk, however the body was cut into chunks.
C24_DecodingIgnoresChunking ==
  [][\A d \in 1..Len(disp) :
       \A r \in Responses(disp[d].attempts[Len(disp[d].attempts)]) \cup EmptyResponses :
         \A response \in Splits(r.body, disp[d].chunks) :
           /\ disp[d].cbs = 0
           /\ onEnd(d, r.ctype, response)
           => disp'[d].res = Decoded(d, r.ctype, Concat(response))]_vars

====
